---- MODULE Spec2Model ----
\* Report-generation pipeline of the Green-Metrics-Extraction-Tool:
\*   ExtractData.py, green_metrics_extractor.py, cloud_patterns_summary.py
\* Each script is main(): load_config -> HTTP GET -> extract -> save_to_excel.
EXTENDS Integers, Sequences, FiniteSets, TLC

VARIABLES
    script,          \* which of the three scripts runs main()
    pc,              \* position of main()
    config,          \* the tuple returned by load_config
    response_json,   \* what the HTTP fetch returned
    detailed_df,     \* extraction results (DataFrames or None)
    summary_df,
    unique_apps_df,
    printed,         \* console messages, in order
    raised,          \* the exception that left main() unhandled ("" if none)
    disk,            \* the workbook held by the output path (or no file)
    effort_min,      \* effort conversion: the raw value and round(effort_min / 480, 2)
    effort_person_days,
    clock,           \* wall clock, whole seconds (datetime.now() truncated by strftime)
    runs,            \* concurrent / successive invocations sharing output/
    files            \* output/ directory: path -> run that wrote it last

vars == <<script, pc, config, response_json, detailed_df, summary_df, unique_apps_df,
          printed, raised, disk, effort_min, effort_person_days, clock, runs, files>>

-----------------------------------------------------------------------------
\* Bounds
MaxRecords == 2      \* raw records in one response
MaxEffort == 500     \* |effort in minutes| in the conversion check
MaxClock == 2        \* clock seconds observed
MaxRuns == 2         \* invocations sharing the output directory

-----------------------------------------------------------------------------
\* JSON values as Python sees them after response.json()
Absent == [t |-> "absent", s |-> "", n |-> 0]     \* key not in the dict
Null == [t |-> "null", s |-> "", n |-> 0]         \* key present, value None
Str(s) == [t |-> "str", s |-> s, n |-> 0]
Num(n) == [t |-> "num", s |-> "", n |-> n]

\* dict.get(key, default): the default is used only when the key is absent
Get(v, default) == IF v.t = "absent" THEN default ELSE v

NA == Str("N/A")

\* Python compares str by code point; the strings of the model in that order
StrOrder == <<"A1", "A2", "Java", "N/A", "P1", "P2", "Python">>
StrRank(s) == CHOOSE i \in 1..Len(StrOrder) : StrOrder[i] = s
StrLess(a, b) == StrRank(a) < StrRank(b)

\* sorted(set of str)
RECURSIVE SortedStrs(_)
SortedStrs(S) ==
    IF S = {} THEN <<>>
    ELSE LET m == CHOOSE x \in S : \A y \in S : x = y \/ StrLess(x, y)
         IN <<m>> \o SortedStrs(S \ {m})

\* ', '.join(seq of str)
RECURSIVE Join(_)
Join(seq) ==
    IF Len(seq) = 0 THEN ""
    ELSE IF Len(seq) = 1 THEN seq[1]
    ELSE seq[1] \o ", " \o Join(Tail(seq))

RECURSIVE SumSeq(_)
SumSeq(seq) == IF Len(seq) = 0 THEN 0 ELSE seq[1] + SumSeq(Tail(seq))

Range(seq) == {seq[i] : i \in 1..Len(seq)}

SeqsUpTo(S, n) == UNION {[1..k -> S] : k \in 0..n}

-----------------------------------------------------------------------------
\* round(effort_min / 480, 2), in hundredths of a person-day.
\* effort_min / 480 * 100 = 5 * effort_min / 24.  Python rounds the binary
\* double correctly: off a tie to the nearest hundredth; on a tie
\* (effort_min = 12 mod 24) by the double nearest to the quotient, which lies
\* above or below the tie (or on it, then half-to-even).  TieAwayFromZero lists
\* the |effort_min| < 612 whose tie rounds away from zero under CPython.
MinutesPerDay == 480
TieAwayFromZero == {12, 108, 132, 156, 180, 252, 324, 372, 420, 444, 564, 588}
Abs(x) == IF x < 0 THEN -x ELSE x
RoundMagnitude(m) ==
    LET num == 100 * m
        q == num \div MinutesPerDay
        r == num % MinutesPerDay
    IN  IF 2 * r < MinutesPerDay THEN q
        ELSE IF 2 * r > MinutesPerDay THEN q + 1
        ELSE IF m \in TieAwayFromZero THEN q + 1 ELSE q
RoundEffort(m) == IF m < 0 THEN -RoundMagnitude(-m) ELSE RoundMagnitude(m)

-----------------------------------------------------------------------------
\* DataFrames: a sequence of rows, or Python's None
NoneDF == [isNone |-> TRUE, rows |-> <<>>]
DF(rows) == [isNone |-> FALSE, rows |-> rows]

Perms(n) == {p \in [1..n -> 1..n] : \A i, j \in 1..n : i # j => p[i] # p[j]}

\* DataFrame.sort_values(by, ascending=False) with the default kind='quicksort':
\* the result is ordered by non-increasing key; quicksort is not a stable sort,
\* so rows with equal keys may come out in any order.
SortValues(rows, by) ==
    LET n == Len(rows)
        ok == {p \in Perms(n) : \A i \in 1..(n - 1) : rows[p[i]][by] >= rows[p[i + 1]][by]}
    IN  {[i \in 1..n |-> rows[p[i]]] : p \in ok}

\* position of a pattern among the keys of an insertion-ordered dict (0: not a key)
KeyIndex(d, pattern) ==
    IF \E i \in 1..Len(d) : d[i].pattern = pattern
    THEN CHOOSE i \in 1..Len(d) : d[i].pattern = pattern
    ELSE 0

-----------------------------------------------------------------------------
\* cloud_patterns_summary.extract_data: one iteration of `for item in response_json`

\* applications = item.get('applications', [])
Applications(item) ==
    IF item.applications = "list" THEN item.app_names ELSE <<>>

\* the filter without its `occurrences == 0` test
CloudSkipped_AppsOnly(item) ==
    \/ item.applications # "list"
    \/ Len(item.app_names) = 0

\* `not applications or occurrences == 0`
CloudSkipped(item) ==
    LET occurrences == Get(item.roadBlocks, Num(0))
    IN  \/ item.applications # "list"
        \/ Len(item.app_names) = 0
        \/ (occurrences.t = "num" /\ occurrences.n = 0)

\* the exception one iteration raises ("" when it raises none)
CloudItemRaises(item) ==
    IF item.techno = "null" THEN "AttributeError"                          \* None.get
    ELSE IF CloudSkipped(item) THEN ""
    ELSE IF Get(item.cloudEffort, Num(0)).t # "num" THEN "TypeError"       \* None / 480
    ELSE IF Get(item.roadBlocks, Num(0)).t # "num" THEN "TypeError"        \* int += None
    ELSE IF \E i \in 1..Len(item.app_names) : item.app_names[i].t = "absent"
         THEN "KeyError"                                                   \* app['name']
    ELSE ""

CloudPattern(item) == Get(item.display, NA)
CloudTechnology(item) ==
    IF item.techno = "absent" THEN NA ELSE Get(item.techno_display, NA)

CloudAcc0 ==
    [detailed_rows |-> <<>>, summary_by_pattern |-> <<>>, pattern_app_map |-> <<>>,
     all_apps_set |-> {}, raised |-> ""]

CloudStep(acc, item) ==
    IF acc.raised # "" THEN acc
    ELSE IF CloudItemRaises(item) # "" THEN [acc EXCEPT !.raised = CloudItemRaises(item)]
    ELSE IF CloudSkipped(item) THEN acc
    ELSE
      LET pattern == CloudPattern(item)
          technology == CloudTechnology(item)
          occurrences == Get(item.roadBlocks, Num(0)).n
          effort_pd == RoundEffort(Get(item.cloudEffort, Num(0)).n)
          app_names == Range(Applications(item))
          s0 == IF KeyIndex(acc.summary_by_pattern, pattern) = 0
                THEN Append(acc.summary_by_pattern,
                            [pattern |-> pattern, count |-> 0, technos |-> {}])
                ELSE acc.summary_by_pattern
          si == KeyIndex(s0, pattern)
          m0 == IF KeyIndex(acc.pattern_app_map, pattern) = 0
                THEN Append(acc.pattern_app_map, [pattern |-> pattern, apps |-> {}])
                ELSE acc.pattern_app_map
          mi == KeyIndex(m0, pattern)
      IN  [detailed_rows |-> Append(acc.detailed_rows,
                [pattern |-> pattern, technology |-> technology,
                 occurrences |-> occurrences, effort_pd |-> effort_pd]),
           summary_by_pattern |->
                [s0 EXCEPT ![si].count = @ + occurrences,
                           ![si].technos = @ \cup {technology}],
           pattern_app_map |-> [m0 EXCEPT ![mi].apps = @ \cup app_names],
           all_apps_set |-> acc.all_apps_set \cup app_names,
           raised |-> ""]

RECURSIVE CloudLoop(_, _)
CloudLoop(acc, items) ==
    IF Len(items) = 0 THEN acc ELSE CloudLoop(CloudStep(acc, items[1]), Tail(items))

\* ', '.join(sorted(data['technos'])) raises TypeError when a techno is None
CloudSummaryRaises(acc) ==
    \E i \in 1..Len(acc.summary_by_pattern) :
        \E t \in acc.summary_by_pattern[i].technos : t.t # "str"

CloudSummaryRows(acc) ==
    [i \in 1..Len(acc.summary_by_pattern) |->
        [pattern |-> acc.summary_by_pattern[i].pattern,
         technologies |-> Join(SortedStrs({t.s : t \in acc.summary_by_pattern[i].technos})),
         occurrences |-> acc.summary_by_pattern[i].count]]

CloudUniqueRows(acc) ==
    [i \in 1..Len(acc.pattern_app_map) |->
        [pattern |-> acc.pattern_app_map[i].pattern,
         unique |-> Cardinality(acc.pattern_app_map[i].apps)]]

AllAppsLabel == Str("Unique apps across all patterns")
\* the last row as the sum of the per-pattern counts instead of len(all_apps_set)
CloudAllAppsRow_SumOfCounts(acc) ==
    [pattern |-> AllAppsLabel,
     unique |-> SumSeq([i \in 1..Len(acc.pattern_app_map) |->
                            Cardinality(acc.pattern_app_map[i].apps)])]
CloudAllAppsRow(acc) == [pattern |-> AllAppsLabel, unique |-> Cardinality(acc.all_apps_set)]

-----------------------------------------------------------------------------
\* extract_green_data (ExtractData.py and green_metrics_extractor.py): the nested
\* loops over metric['greenDetail'] and tech_data['greenIndexDetails'], as the
\* sequence of their iterations.  An item of kind "no_details" is a tech_data
\* whose greenIndexDetails is missing or empty; an item of kind "leaf" is one
\* detail together with the technology of the tech_data that holds it.

\* `occurrences == 0` (or the tech_data has no details)
GreenSkipped(item) ==
    LET occurrences == Get(item.greenOccurrences, Num(0))
    IN  \/ item.kind = "no_details"
        \/ (occurrences.t = "num" /\ occurrences.n = 0)

GreenItemRaises(item) ==
    IF GreenSkipped(item) THEN ""
    ELSE IF Get(item.greenEffort, Num(0)).t # "num" THEN "TypeError"       \* None / 480
    ELSE IF item.greenRequirement = "null" THEN "AttributeError"            \* None.get
    ELSE ""

GreenPattern(item) ==
    IF item.greenRequirement = "absent" THEN NA ELSE Get(item.display, NA)

GreenStep(acc, item) ==
    IF acc.raised # "" THEN acc
    ELSE IF GreenItemRaises(item) # "" THEN [acc EXCEPT !.raised = GreenItemRaises(item)]
    ELSE IF GreenSkipped(item) THEN acc
    ELSE [acc EXCEPT !.rows = Append(@,
            [pattern |-> GreenPattern(item),
             technology |-> Get(item.technology, NA),
             occurrences |-> Get(item.greenOccurrences, Num(0)).n,
             effort_pd |-> RoundEffort(Get(item.greenEffort, Num(0)).n)])]

RECURSIVE GreenLoop(_, _)
GreenLoop(acc, items) ==
    IF Len(items) = 0 THEN acc ELSE GreenLoop(GreenStep(acc, items[1]), Tail(items))

\* Series.unique(): the distinct values in order of first appearance
RECURSIVE UniqueInOrder(_)
UniqueInOrder(seq) ==
    IF Len(seq) = 0 THEN <<>>
    ELSE LET front == UniqueInOrder(SubSeq(seq, 1, Len(seq) - 1))
             last == seq[Len(seq)]
         IN  IF last \in Range(front) THEN front ELSE Append(front, last)

\* detailed_df.groupby('Rule/Pattern'): the groups come in sorted key order
\* (sort=True) and rows whose key is None are left out (dropna=True); inside
\* a group the rows keep the order they have in detailed_df.
GroupKeys(rows) == SortedStrs({r.pattern.s : r \in {x \in Range(rows) : x.pattern.t = "str"}})
RECURSIVE GroupRows(_, _)
GroupRows(rows, key) ==
    IF Len(rows) = 0 THEN <<>>
    ELSE IF rows[1].pattern = Str(key) THEN <<rows[1]>> \o GroupRows(Tail(rows), key)
    ELSE GroupRows(Tail(rows), key)

GroupTechnologies(group) == UniqueInOrder([i \in 1..Len(group) |-> group[i].technology])

\* ', '.join(group['Technology'].unique()) raises TypeError on a None technology
GreenSummaryRaises(rows) ==
    \E i \in 1..Len(rows) : rows[i].pattern.t = "str" /\ rows[i].technology.t # "str"

GreenSummaryData(rows) ==
    LET keys == GroupKeys(rows)
    IN  [i \in 1..Len(keys) |->
            LET group == GroupRows(rows, keys[i])
                technos == GroupTechnologies(group)
            IN  [pattern |-> Str(keys[i]),
                 technologies |-> Join([j \in 1..Len(technos) |-> technos[j].s]),
                 occurrences |-> SumSeq([j \in 1..Len(group) |-> group[j].occurrences])]]

-----------------------------------------------------------------------------
\* Spreadsheet cells and sheets
Blank == [k |-> "blank", s |-> "", n |-> 0]          \* None or ''
Text(s) == [k |-> "text", s |-> s, n |-> 0]
Number(n) == [k |-> "number", s |-> "", n |-> n]
Formula(s) == [k |-> "formula", s |-> s, n |-> 0]
Cell(v) == IF v.t = "str" THEN Text(v.s) ELSE Blank

RoundFormula(row) == "=ROUND(D" \o ToString(row) \o "*E" \o ToString(row) \o ", 2)"
SumFormula(total_row_num) == "=SUM(F2:F" \o ToString(total_row_num - 1) \o ")"

DetailHeader ==
    [A |-> Text("Rule/Pattern"), B |-> Text("Technology"),
     C |-> Text("Number of Occurrences"), D |-> Text("Effort by Occurrence (Person-day)"),
     E |-> Text("Cost (FTE/Day)"), F |-> Text("Tech Debt ($) Effort x Cost")]

\* the detail frame with its TOTAL row, as DataFrame.to_excel writes it
\* (sheet row 1 is the header, frame row i is sheet row i + 1)
DetailTotal(rows) ==
    [A |-> Text("TOTAL"), B |-> Blank,
     C |-> Number(SumSeq([i \in 1..Len(rows) |-> rows[i].occurrences])),
     D |-> Number(SumSeq([i \in 1..Len(rows) |-> rows[i].effort_pd])),
     E |-> Blank, F |-> Blank]
DetailSheet(rows) ==
    <<DetailHeader>>
    \o [i \in 1..Len(rows) |->
          [A |-> Cell(rows[i].pattern), B |-> Cell(rows[i].technology),
           C |-> Number(rows[i].occurrences), D |-> Number(rows[i].effort_pd),
           E |-> Blank, F |-> Blank]]
    \o <<DetailTotal(rows)>>

SummaryHeader(technology_column) ==
    [A |-> Text("Rule/Pattern"), B |-> Text(technology_column),
     C |-> Text("Number of Occurrences")]
SummaryTotal(rows) ==
    [A |-> Text("TOTAL"), B |-> Blank,
     C |-> Number(SumSeq([i \in 1..Len(rows) |-> rows[i].occurrences]))]
SummarySheet(rows, technology_column) ==
    <<SummaryHeader(technology_column)>>
    \o [i \in 1..Len(rows) |->
          [A |-> Cell(rows[i].pattern), B |-> Text(rows[i].technologies),
           C |-> Number(rows[i].occurrences)]]
    \o <<SummaryTotal(rows)>>

UniqueSheet(rows) ==
    <<[A |-> Text("Rule/Pattern"), B |-> Text("Unique Applications")]>>
    \o [i \in 1..Len(rows) |-> [A |-> Cell(rows[i].pattern), B |-> Number(rows[i].unique)]]

\* ws[f'F{row}'] = '=ROUND(...)' for row in range(2, last): sheet rows 2..last-1
WriteRoundFormulas(sheet, last) ==
    [r \in 1..Len(sheet) |->
        IF r >= 2 /\ r < last THEN [sheet[r] EXCEPT !.F = Formula(RoundFormula(r))]
        ELSE sheet[r]]

\* ws[f'F{total_row_num}'] = f'=SUM(F2:F{total_row_num-1})'
WriteSumFormula(sheet, total_row_num) ==
    [sheet EXCEPT ![total_row_num].F = Formula(SumFormula(total_row_num))]

\* the formatting pass over the detail sheet after load_workbook
FormatDetailGreen(sheet, n) == WriteSumFormula(WriteRoundFormulas(sheet, n + 2), n + 2)
\* cloud: detailed_df already holds the TOTAL row, so len(detailed_df) = n + 1
\* and range(2, len(detailed_df) + 1) stops before the TOTAL row; no SUM is written
FormatDetailCloud(sheet, n) == WriteRoundFormulas(sheet, (n + 1) + 1)

NoFile == [exists |-> FALSE, detail |-> <<>>, summary |-> <<>>, unique |-> <<>>,
           formatted |-> FALSE]

-----------------------------------------------------------------------------
\* Inputs
Scripts == {"ExtractData", "green_metrics_extractor", "cloud_patterns_summary"}
GreenScripts == {"ExtractData", "green_metrics_extractor"}

Patterns == {"P1", "P2"}
Technologies == {"Java", "Python"}
Occurrences == {0, 1, 2}
AppLists == {<<>>, <<Str("A1")>>, <<Str("A1"), Str("A2")>>}

ConfigKeys(s) ==
    IF s = "cloud_patterns_summary" THEN <<"HLInstance", "domain_id", "api_key">>
    ELSE <<"HLInstance", "domain_id", "application_id", "api_key">>
AllConfigKeys == {"HLInstance", "domain_id", "application_id", "api_key"}
\* config.json: unreadable, or a JSON object holding some of the keys
ConfigFiles ==
    {[readable |-> FALSE, keys |-> {}]}
    \cup {[readable |-> TRUE, keys |-> K] : K \in SUBSET AllConfigKeys}

CloudBase ==
    [display |-> Str("P1"), techno |-> "obj", techno_display |-> Str("Java"),
     roadBlocks |-> Num(1), cloudEffort |-> Num(480),
     applications |-> "list", app_names |-> <<Str("A1")>>]
CloudItems ==
    {[CloudBase EXCEPT !.display = Str(p), !.techno_display = Str(t),
                       !.roadBlocks = Num(o), !.app_names = a] :
        p \in Patterns, t \in Technologies, o \in Occurrences, a \in AppLists}
    \cup {[CloudBase EXCEPT !.display = Absent], [CloudBase EXCEPT !.display = Null],
          [CloudBase EXCEPT !.techno = "absent"], [CloudBase EXCEPT !.techno = "null"],
          [CloudBase EXCEPT !.techno_display = Absent],
          [CloudBase EXCEPT !.techno_display = Null],
          [CloudBase EXCEPT !.roadBlocks = Absent], [CloudBase EXCEPT !.roadBlocks = Null],
          [CloudBase EXCEPT !.cloudEffort = Absent], [CloudBase EXCEPT !.cloudEffort = Null],
          [CloudBase EXCEPT !.cloudEffort = Num(-480)],
          [CloudBase EXCEPT !.applications = "absent", !.app_names = <<>>],
          [CloudBase EXCEPT !.applications = "null", !.app_names = <<>>],
          [CloudBase EXCEPT !.app_names = <<Absent>>],
          [CloudBase EXCEPT !.app_names = <<Null>>]}

\* (a null greenOccurrences passes the filter and reaches pandas as NaN; the
\* inputs below keep greenOccurrences an integer or absent)
GreenBase ==
    [kind |-> "leaf", technology |-> Str("Java"), greenRequirement |-> "obj",
     display |-> Str("P1"), greenOccurrences |-> Num(1), greenEffort |-> Num(480)]
GreenItems ==
    {[GreenBase EXCEPT !.display = Str(p), !.technology = Str(t),
                       !.greenOccurrences = Num(o)] :
        p \in Patterns, t \in Technologies, o \in Occurrences}
    \cup {[GreenBase EXCEPT !.kind = "no_details"],
          [GreenBase EXCEPT !.technology = Absent], [GreenBase EXCEPT !.technology = Null],
          [GreenBase EXCEPT !.greenRequirement = "absent"],
          [GreenBase EXCEPT !.greenRequirement = "null"],
          [GreenBase EXCEPT !.display = Absent], [GreenBase EXCEPT !.display = Null],
          [GreenBase EXCEPT !.greenOccurrences = Absent],
          [GreenBase EXCEPT !.greenEffort = Absent], [GreenBase EXCEPT !.greenEffort = Null],
          [GreenBase EXCEPT !.greenEffort = Num(-480)]}

\* what the fetch can return: None (request failed), an empty body, a body
\* of the wrong shape, or the expected non-empty list of records
Response(kind, items) == [kind |-> kind, items |-> items]
CloudResponses ==
    {Response(k, <<>>) : k \in {"failed", "empty", "not_list"}}
    \cup {Response("list", items) : items \in SeqsUpTo(CloudItems, MaxRecords) \ {<<>>}}
GreenResponses ==
    {Response(k, <<>>) : k \in {"failed", "empty", "no_metrics", "no_green_detail"}}
    \cup {Response("list", items) : items \in SeqsUpTo(GreenItems, MaxRecords) \ {<<>>}}
Responses(s) == IF s = "cloud_patterns_summary" THEN CloudResponses ELSE GreenResponses

NoResponse == Response("none", <<>>)

-----------------------------------------------------------------------------
\* main() of the three scripts

mainVars == <<script, pc, config, response_json, detailed_df, summary_df, unique_apps_df,
              printed, raised, disk>>
effortVars == <<effort_min, effort_person_days>>
runVars == <<clock, runs, files>>

Init ==
    /\ script \in Scripts
    /\ pc = "start"
    /\ config = <<>>
    /\ response_json = NoResponse
    /\ detailed_df = NoneDF
    /\ summary_df = NoneDF
    /\ unique_apps_df = NoneDF
    /\ printed = <<>>
    /\ raised = ""
    /\ disk = NoFile
    /\ effort_min = Absent
    /\ effort_person_days = 0
    /\ clock = 0
    /\ runs = <<>>
    /\ files = <<>>

\* load_config() and the `None in (...)` test of main()
ConfigTuple(s, file) ==
    [i \in 1..Len(ConfigKeys(s)) |->
        IF file.readable /\ ConfigKeys(s)[i] \in file.keys THEN ConfigKeys(s)[i] ELSE "None"]

LoadConfig ==
    /\ pc = "start"
    /\ \E file \in ConfigFiles :
        LET tuple == ConfigTuple(script, file)
            errors == IF file.readable THEN <<>> ELSE <<"Error loading config.json">>
        IN  /\ config' = tuple
            /\ IF "None" \in Range(tuple)
               THEN /\ printed' = printed \o errors \o <<"Failed to load configuration">>
                    /\ pc' = "done"
               ELSE /\ printed' = printed
                    /\ pc' = "configured"
    /\ UNCHANGED <<script, response_json, detailed_df, summary_df, unique_apps_df, raised, disk>>
    /\ UNCHANGED <<effortVars, runVars>>

\* get_api_data / get_domain_cloud_data
GetApiData ==
    /\ pc = "configured"
    /\ \E r \in Responses(script) :
        /\ response_json' = r
        /\ printed' = IF r.kind = "failed" THEN Append(printed, "API request failed")
                      ELSE printed
    /\ pc' = "fetched"
    /\ UNCHANGED <<script, config, detailed_df, summary_df, unique_apps_df, raised, disk>>
    /\ UNCHANGED <<effortVars, runVars>>

Returns(d, s, u, messages) ==
    /\ detailed_df' = d
    /\ summary_df' = s
    /\ unique_apps_df' = u
    /\ printed' = printed \o messages
    /\ raised' = ""
    /\ pc' = "extracted"

Raises(exception) ==
    /\ raised' = exception
    /\ pc' = "crashed"
    /\ UNCHANGED <<detailed_df, summary_df, unique_apps_df, printed>>

\* extract_green_data, after the fetch (both green scripts)
ExtractGreenData ==
    /\ pc = "fetched"
    /\ script \in GreenScripts
    /\ LET kind == response_json.kind
           acc == GreenLoop([rows |-> <<>>, raised |-> ""], response_json.items)
       IN  IF kind \in {"failed", "empty"} THEN Returns(NoneDF, NoneDF, NoneDF, <<>>)
           ELSE IF kind = "no_metrics"
                THEN Returns(NoneDF, NoneDF, NoneDF, <<"No metrics data found in the response.">>)
           ELSE IF kind = "no_green_detail"
                THEN Returns(NoneDF, NoneDF, NoneDF, <<"No green details found in metrics.">>)
           ELSE IF acc.raised # "" THEN Raises(acc.raised)
           ELSE IF Len(acc.rows) = 0
                THEN Returns(NoneDF, NoneDF, NoneDF, <<"No rules with occurrences found.">>)
           ELSE \E d \in SortValues(acc.rows, "occurrences") :
                  IF script = "ExtractData" THEN Returns(DF(d), NoneDF, NoneDF, <<>>)
                  ELSE IF GreenSummaryRaises(d) THEN Raises("TypeError")
                  ELSE \E s \in SortValues(GreenSummaryData(d), "occurrences") :
                          Returns(DF(d), DF(s), NoneDF, <<>>)
    /\ UNCHANGED <<script, config, response_json, disk>>
    /\ UNCHANGED <<effortVars, runVars>>

\* cloud_patterns_summary.extract_data
ExtractData ==
    /\ pc = "fetched"
    /\ script = "cloud_patterns_summary"
    /\ LET acc == CloudLoop(CloudAcc0, response_json.items)
       IN  IF response_json.kind # "list"
           THEN Returns(NoneDF, NoneDF, NoneDF, <<"Unexpected or empty response format.">>)
           ELSE IF acc.raised # "" THEN Raises(acc.raised)
           ELSE IF CloudSummaryRaises(acc) THEN Raises("TypeError")
           ELSE \E d \in SortValues(acc.detailed_rows, "occurrences") :
                \E s \in SortValues(CloudSummaryRows(acc), "occurrences") :
                \E u \in SortValues(CloudUniqueRows(acc), "unique") :
                    Returns(DF(d), DF(s), DF(Append(u, CloudAllAppsRow(acc))), <<>>)
    /\ UNCHANGED <<script, config, response_json, disk>>
    /\ UNCHANGED <<effortVars, runVars>>

\* the test main() makes on what extraction returned
HasData ==
    IF script = "green_metrics_extractor"
    THEN ~detailed_df.isNone /\ ~summary_df.isNone
    ELSE ~detailed_df.isNone

\* main(), else branch
NoData ==
    /\ pc = "extracted"
    /\ ~HasData
    /\ printed' = Append(printed, "No data was extracted")
    /\ pc' = "done"
    /\ UNCHANGED <<script, config, response_json, detailed_df, summary_df, unique_apps_df,
                   raised, disk>>
    /\ UNCHANGED <<effortVars, runVars>>

\* save_to_excel, first half: TOTAL rows appended, frames written to output_file
\* (DataFrame.to_excel / pd.ExcelWriter)
WriteWorkbook ==
    /\ pc = "extracted"
    /\ HasData
    /\ disk' = [exists |-> TRUE,
                detail |-> DetailSheet(detailed_df.rows),
                summary |-> IF script = "ExtractData" THEN <<>>
                            ELSE SummarySheet(summary_df.rows,
                                    IF script = "cloud_patterns_summary" THEN "Technologies"
                                    ELSE "Technology"),
                unique |-> IF script = "cloud_patterns_summary"
                           THEN UniqueSheet(unique_apps_df.rows) ELSE <<>>,
                formatted |-> FALSE]
    /\ pc' = "written"
    /\ UNCHANGED <<script, config, response_json, detailed_df, summary_df, unique_apps_df,
                   printed, raised>>
    /\ UNCHANGED <<effortVars, runVars>>

\* save_to_excel, second half: load_workbook, formulas, formatting, wb.save
FormatWorkbook ==
    /\ pc = "written"
    /\ disk' = [disk EXCEPT
                  !.detail = IF script = "cloud_patterns_summary"
                             THEN FormatDetailCloud(@, Len(detailed_df.rows))
                             ELSE FormatDetailGreen(@, Len(detailed_df.rows)),
                  !.formatted = TRUE]
    /\ printed' = Append(printed, "Data saved")
    /\ pc' = "saved"
    /\ UNCHANGED <<script, config, response_json, detailed_df, summary_df, unique_apps_df,
                   raised>>
    /\ UNCHANGED <<effortVars, runVars>>

Next ==
    \/ LoadConfig
    \/ GetApiData
    \/ ExtractGreenData
    \/ ExtractData
    \/ NoData
    \/ WriteWorkbook
    \/ FormatWorkbook

Spec == Init /\ [][Next]_vars

-----------------------------------------------------------------------------
\* The effort conversion on its own: effort_min = detail.get('greenEffort', 0)
\* (resp. item.get('cloudEffort', 0)); effort_person_days = round(effort_min / 480, 2)

EffortInputs == {Absent, Null} \cup {Num(m) : m \in (-MaxEffort)..MaxEffort}

InitEffort ==
    /\ script \in Scripts
    /\ pc = "retained"
    /\ config = <<>>
    /\ response_json = NoResponse
    /\ detailed_df = NoneDF
    /\ summary_df = NoneDF
    /\ unique_apps_df = NoneDF
    /\ printed = <<>>
    /\ raised = ""
    /\ disk = NoFile
    /\ effort_min \in EffortInputs
    /\ effort_person_days = 0
    /\ clock = 0
    /\ runs = <<>>
    /\ files = <<>>

ConvertEffort ==
    /\ pc = "retained"
    /\ LET v == Get(effort_min, Num(0))
       IN  IF v.t # "num"
           THEN /\ raised' = "TypeError"
                /\ pc' = "crashed"
                /\ UNCHANGED effort_person_days
           ELSE /\ effort_person_days' = RoundEffort(v.n)
                /\ pc' = "converted"
                /\ UNCHANGED raised
    /\ UNCHANGED <<script, config, response_json, detailed_df, summary_df, unique_apps_df,
                   printed, disk, effort_min>>
    /\ UNCHANGED runVars

NextEffort == ConvertEffort

SpecEffort == InitEffort /\ [][NextEffort]_vars

-----------------------------------------------------------------------------
\* Several invocations writing into the shared output/ directory.
\* save_to_excel computes output_file from the config ids and
\* datetime.now().strftime("%Y%m%d_%H%M%S"), which has whole-second resolution.

DomainIds == {"101", "102"}
ApplicationIds == {"7", "8"}

\* strftime of the clock second (the date part is the same for all of them)
Timestamp(c) == "20250101_1200" \o (IF c < 10 THEN "0" ELSE "") \o ToString(c)

OutputFile(s, domain_id, application_id, c) ==
    IF s = "cloud_patterns_summary"
    THEN "output/domain_cloud_metrics_d" \o domain_id \o "_" \o Timestamp(c) \o ".xlsx"
    ELSE "output/green_metrics_d" \o domain_id \o "_a" \o application_id
            \o "_" \o Timestamp(c) \o ".xlsx"

RunStates ==
    [script : Scripts, domain_id : DomainIds, application_id : ApplicationIds,
     pc : {"extracted"}, output_file : {""}]

InitRuns ==
    /\ script = "none"
    /\ pc = "runs"
    /\ config = <<>>
    /\ response_json = NoResponse
    /\ detailed_df = NoneDF
    /\ summary_df = NoneDF
    /\ unique_apps_df = NoneDF
    /\ printed = <<>>
    /\ raised = ""
    /\ disk = NoFile
    /\ effort_min = Absent
    /\ effort_person_days = 0
    /\ clock = 0
    /\ runs \in [1..MaxRuns -> RunStates]
    /\ files = <<>>

\* a second passes
Tick ==
    /\ clock < MaxClock
    /\ clock' = clock + 1
    /\ UNCHANGED <<runs, files>>
    /\ UNCHANGED <<mainVars, effortVars>>

\* save_to_excel of run i: the path is computed and the workbook is written
\* there, replacing whatever the path held (files keeps the write order)
SaveToExcel(i) ==
    /\ runs[i].pc = "extracted"
    /\ LET output_file == OutputFile(runs[i].script, runs[i].domain_id,
                                     runs[i].application_id, clock)
       IN  /\ runs' = [runs EXCEPT ![i].pc = "saved", ![i].output_file = output_file]
           /\ files' = Append(SelectSeq(files, LAMBDA f : f.path # output_file),
                              [path |-> output_file, run |-> i])
    /\ UNCHANGED clock
    /\ UNCHANGED <<mainVars, effortVars>>

NextRuns ==
    \/ Tick
    \/ \E i \in 1..MaxRuns : SaveToExcel(i)

SpecRuns == InitRuns /\ [][NextRuns]_vars

-----------------------------------------------------------------------------
\* Vocabulary of the properties

IsCloud == script = "cloud_patterns_summary"
Items == response_json.items
ItemIndices == 1..Len(Items)

\* extraction returned frames (and main() goes on to save_to_excel)
TablesExist == pc \in {"extracted", "written", "saved"} /\ ~detailed_df.isNone

\* item i is a raw record (not a tech_data without details)
IsRecord(i) == IsCloud \/ Items[i].kind = "leaf"
RawCount(i) == IF IsCloud THEN Items[i].roadBlocks ELSE Items[i].greenOccurrences
RawPattern(i) == IF IsCloud THEN CloudPattern(Items[i]) ELSE GreenPattern(Items[i])
RawTechnology(i) ==
    IF IsCloud THEN CloudTechnology(Items[i]) ELSE Get(Items[i].technology, NA)
RawAppNames(i) ==
    IF IsCloud /\ Items[i].applications = "list" THEN Range(Items[i].app_names) ELSE {}

\* the raw occurrence count of record i is the number 0
ZeroCount(i) == IsRecord(i) /\ RawCount(i) = Num(0)

\* record i passes the filters of the loop: a count other than 0 and, for the
\* cloud variant, a non-empty applications list
Qualifies(i) ==
    /\ IsRecord(i)
    /\ Get(RawCount(i), Num(0)) # Num(0)
    /\ IsCloud => (Items[i].applications = "list" /\ Len(Items[i].app_names) > 0)

\* all sequences without repetition over subsets of S
Arrangements(S) ==
    {q \in SeqsUpTo(S, Cardinality(S)) : \A i, j \in 1..Len(q) : i # j => q[i] # q[j]}

DataRows(sheet) == 2..(Len(sheet) - 1)      \* between the header and the TOTAL row

-----------------------------------------------------------------------------
\* C1: whenever a failure occurs before data is obtained (a config value is
\* None, the HTTP call failed, the response is empty or of the wrong shape, or
\* no record qualifies), save_to_excel is never entered and no output file
\* exists; main() ends having printed a diagnostic.
FailureBeforeData ==
    \/ (pc # "start" /\ "None" \in Range(config))
    \/ response_json.kind \in {"failed", "empty", "not_list", "no_metrics", "no_green_detail"}
    \/ (response_json.kind = "list" /\ \A i \in ItemIndices : ~Qualifies(i))

C1_NoOutputOnFailure ==
    FailureBeforeData =>
        /\ ~disk.exists
        /\ pc \notin {"written", "saved"}
        /\ pc = "done" => Len(printed) > 0

\* C2: a raw record whose occurrence count is 0 contributes nothing: every
\* detail row, every summary row's pattern, technologies and total, and every
\* unique-application count is made of records with a non-zero count only,
\* in the frames and in the sheets written from them.
Contributors == {i \in ItemIndices : IsRecord(i) /\ ~ZeroCount(i)}
ContributorsOf(pattern) == {i \in Contributors : RawPattern(i) = pattern}

C2_DetailWithoutZero ==
    /\ Len(detailed_df.rows) <= Cardinality(Contributors)
    /\ \A k \in 1..Len(detailed_df.rows) :
          /\ detailed_df.rows[k].occurrences # 0
          /\ \E i \in ContributorsOf(detailed_df.rows[k].pattern) :
                /\ RawTechnology(i) = detailed_df.rows[k].technology
                /\ RawCount(i) = Num(detailed_df.rows[k].occurrences)

C2_SummaryWithoutZero ==
    ~summary_df.isNone =>
        \A k \in 1..Len(summary_df.rows) :
            LET row == summary_df.rows[k]
                from == ContributorsOf(row.pattern)
                technos == {RawTechnology(i).s : i \in from}
            IN  /\ from # {}
                /\ row.occurrences # 0
                /\ row.technologies \in {Join(q) : q \in Arrangements(technos)}

C2_UniqueWithoutZero ==
    ~unique_apps_df.isNone =>
        LET rows == unique_apps_df.rows
            n == Len(rows)
        IN  /\ \A k \in 1..(n - 1) :
                  /\ ContributorsOf(rows[k].pattern) # {}
                  /\ rows[k].unique <=
                        Cardinality(UNION {RawAppNames(i) : i \in ContributorsOf(rows[k].pattern)})
            /\ rows[n].unique <= Cardinality(UNION {RawAppNames(i) : i \in Contributors})

C2_SheetsWithoutZero ==
    disk.exists =>
        /\ \A r \in DataRows(disk.detail) : disk.detail[r].C # Number(0)
        /\ \A r \in DataRows(disk.summary) : disk.summary[r].C # Number(0)

\* C2: no frame and no sheet holds anything that comes from a record whose
\* occurrence count is 0.
C2_ZeroOccurrenceDropped ==
    TablesExist =>
        /\ C2_DetailWithoutZero
        /\ C2_SummaryWithoutZero
        /\ C2_UniqueWithoutZero
        /\ C2_SheetsWithoutZero

\* a saved cloud report whose input held a zero-count record with applications,
\* of another pattern and technology than a record that was kept
C2_Witness ==
    /\ IsCloud
    /\ pc = "saved"
    /\ \E i, j \in ItemIndices :
          /\ ZeroCount(i)
          /\ RawAppNames(i) # {}
          /\ Qualifies(j)
          /\ RawPattern(i) # RawPattern(j)
          /\ RawTechnology(i) # RawTechnology(j)
          /\ ~(RawAppNames(i) \subseteq RawAppNames(j))

\* C3: with n >= 1 detail rows, the saved detail sheet's TOTAL row (sheet row
\* n + 2) holds =SUM(F2:F{n+1}) in column F, in every script.
C3_TotalTechDebtIsSum ==
    (pc = "saved" /\ Len(detailed_df.rows) >= 1) =>
        LET n == Len(detailed_df.rows)
        IN  /\ Len(disk.detail) = n + 2
            /\ disk.detail[n + 2].A = Text("TOTAL")
            /\ disk.detail[n + 2].F = Formula("=SUM(F2:F" \o ToString(n + 1) \o ")")

\* C4: every summary row's technologies string is the sorted, duplicate-free,
\* ", "-joined list of the technologies of the detail rows with that pattern.
TechnologiesOf(pattern) ==
    {detailed_df.rows[k].technology.s :
        k \in {x \in 1..Len(detailed_df.rows) : detailed_df.rows[x].pattern = pattern}}

C4_TechnologiesSortedUnique ==
    (TablesExist /\ ~summary_df.isNone) =>
        \A k \in 1..Len(summary_df.rows) :
            summary_df.rows[k].technologies
                = Join(SortedStrs(TechnologiesOf(summary_df.rows[k].pattern)))

\* C5: in every saved sheet with a TOTAL row, the TOTAL's Number of
\* Occurrences is the sum of the occurrences of all detail rows, so the
\* Summary sheet's TOTAL equals the detail sheet's TOTAL.
DetailOccurrenceSum ==
    SumSeq([k \in 1..Len(detailed_df.rows) |-> detailed_df.rows[k].occurrences])

C5_TotalsAreDetailSum ==
    pc = "saved" =>
        /\ disk.detail[Len(disk.detail)].C = Number(DetailOccurrenceSum)
        /\ Len(disk.summary) > 0 =>
              /\ disk.summary[Len(disk.summary)].C = Number(DetailOccurrenceSum)
              /\ disk.summary[Len(disk.summary)].C = disk.detail[Len(disk.detail)].C


\* C6: every table is ordered by non-increasing count, and rows with equal
\* counts keep the order in which their record (detail) or their pattern
\* (Summary, UniqueApplications) was first encountered in the input.
QualifyingIndices == {i \in ItemIndices : Qualifies(i)}
CountOf(i) == Get(RawCount(i), Num(0)).n

\* the record indices by descending count, ties by ascending input position
RECURSIVE StableByCount(_)
StableByCount(S) ==
    IF S = {} THEN <<>>
    ELSE LET m == CHOOSE i \in S :
                    \A j \in S : CountOf(i) > CountOf(j) \/ (CountOf(i) = CountOf(j) /\ i <= j)
         IN  <<m>> \o StableByCount(S \ {m})

FirstEncounter(pattern) ==
    CHOOSE i \in QualifyingIndices :
        /\ RawPattern(i) = pattern
        /\ \A j \in QualifyingIndices : RawPattern(j) = pattern => i <= j

C6_DetailStable ==
    LET order == StableByCount(QualifyingIndices)
    IN  /\ Len(detailed_df.rows) = Len(order)
        /\ \A k \in 1..Len(order) :
              /\ detailed_df.rows[k].pattern = RawPattern(order[k])
              /\ detailed_df.rows[k].technology = RawTechnology(order[k])
              /\ detailed_df.rows[k].occurrences = CountOf(order[k])

C6_SummaryStable ==
    ~summary_df.isNone =>
        \A k, l \in 1..Len(summary_df.rows) :
            k < l =>
                \/ summary_df.rows[k].occurrences > summary_df.rows[l].occurrences
                \/ /\ summary_df.rows[k].occurrences = summary_df.rows[l].occurrences
                   /\ FirstEncounter(summary_df.rows[k].pattern)
                        < FirstEncounter(summary_df.rows[l].pattern)

C6_UniqueStable ==
    ~unique_apps_df.isNone =>
        \A k, l \in 1..(Len(unique_apps_df.rows) - 1) :
            k < l =>
                \/ unique_apps_df.rows[k].unique > unique_apps_df.rows[l].unique
                \/ /\ unique_apps_df.rows[k].unique = unique_apps_df.rows[l].unique
                   /\ FirstEncounter(unique_apps_df.rows[k].pattern)
                        < FirstEncounter(unique_apps_df.rows[l].pattern)

\* C6: detail, Summary and UniqueApplications are all sorted descending by
\* count with ties in first-encounter order.
C6_TablesSortedStable ==
    TablesExist => (C6_DetailStable /\ C6_SummaryStable /\ C6_UniqueStable)

\* C7: any two invocations that reached save_to_excel computed distinct
\* output paths, so none replaced the file of another.
C7_OutputPathsDistinct ==
    \A i, j \in 1..Len(runs) :
        (i # j /\ runs[i].pc = "saved" /\ runs[j].pc = "saved")
            => runs[i].output_file # runs[j].output_file

\* C8: no record makes extraction raise; a missing or null optional field
\* shows up in the rows as "N/A" (text) or 0 (number).
C8_OptionalFieldsResolve ==
    /\ raised = ""
    /\ TablesExist =>
          \A k \in 1..Len(detailed_df.rows) :
              /\ detailed_df.rows[k].pattern.t = "str"
              /\ detailed_df.rows[k].technology.t = "str"

\* C9: effort_person_days is effort_min / 480 to the nearest hundredth, 1.00
\* for 480 and 0.50 for 241, and 0.00 for a negative or an absent effort_min;
\* it is never negative.  (effort_person_days is held in hundredths.)
C9_EffortConversion ==
    pc = "converted" =>
        LET m == Get(effort_min, Num(0)).n
        IN  /\ effort_person_days >= 0
            /\ (effort_min = Absent \/ m < 0) => effort_person_days = 0
            /\ m = 480 => effort_person_days = 100
            /\ m = 241 => effort_person_days = 50
            /\ m >= 0 => 2 * Abs(100 * m - MinutesPerDay * effort_person_days) <= MinutesPerDay

\* C10 (as stated): the UniqueApplications table has one row per distinct
\* pattern of the raw records, counting the distinct application names over
\* ALL raw records with that label, then a last row with the size of the
\* union of the names over all raw records.
UniqueTableIs(indices) ==
    LET rows == unique_apps_df.rows
        n == Len(rows)
        patterns == {RawPattern(i) : i \in indices}
        names(p) == UNION {RawAppNames(i) : i \in {x \in indices : RawPattern(x) = p}}
    IN  /\ n = Cardinality(patterns) + 1
        /\ \A p \in patterns :
              \E k \in 1..(n - 1) :
                  rows[k] = [pattern |-> p, unique |-> Cardinality(names(p))]
        /\ rows[n] = [pattern |-> AllAppsLabel,
                      unique |-> Cardinality(UNION {RawAppNames(i) : i \in indices})]

\* C10 (as stated): UniqueApplications counts distinct application names over
\* all raw records of the response.
C10_UniqueAppsOverAllRecords ==
    (IsCloud /\ TablesExist) => UniqueTableIs(ItemIndices)

\* C10 (amended): the same, over the records the loop keeps (a non-empty
\* applications list and an occurrence count other than 0).
C10_UniqueAppsOverKeptRecords ==
    (IsCloud /\ TablesExist) => UniqueTableIs(QualifyingIndices)

\* two kept records of different patterns share an application: the last row
\* (the union) is smaller than the sum of the per-pattern counts
C10_Witness ==
    /\ IsCloud
    /\ TablesExist
    /\ Len(unique_apps_df.rows) = 3
    /\ unique_apps_df.rows[3].unique
          < unique_apps_df.rows[1].unique + unique_apps_df.rows[2].unique
    /\ unique_apps_df.rows[1].unique # unique_apps_df.rows[2].unique


\* C11: the output path never holds a workbook that lacks the formulas or the
\* formatting: whenever the file exists it is the finished workbook, written
\* once as the last step of save_to_excel, so stopping inside save_to_excel
\* leaves no partial file.
C11_NoPartialOutputFile ==
    disk.exists =>
        /\ disk.formatted
        /\ pc = "saved"
        /\ \A r \in DataRows(disk.detail) : disk.detail[r].F.k = "formula"

====
